---- MODULE Spec2Model ----
(***************************************************************************)
(* State-machine model of OfflineSyncService                                *)
(* (src/services/speechToTextService.ts, lines 605-1513): the in-memory     *)
(* sync queue, its persisted copy in AsyncStorage, the sync pass of         *)
(* processSyncQueue with its two workers, syncWithConflictResolution, the   *)
(* entity adapters and the dead letter hand-over.                           *)
(*                                                                          *)
(* Every action is one synchronous block of the JavaScript code, i.e. the   *)
(* code between two awaits; the interleavings of the actions are the        *)
(* interleavings of the event loop.                                         *)
(***************************************************************************)
EXTENDS Integers, Sequences, FiniteSets, TLC

(***************************************************************************)
(* Bounds of the model                                                      *)
(***************************************************************************)
MaxItems == 2
MaxCallers == 2
MaxFails == 1
MaxRejects == 1
MaxLoaded == 2
MaxPasses == 2
MaxEnqueued == 3
MaxSorted == 2
MaxSessions == 3

(***************************************************************************)
(* Program constants                                                        *)
(***************************************************************************)
Concurrency == 2
RetryCeiling == 8
DefaultBatchSize == 10
\* consecutive failures that open the circuit breaker
BreakerThreshold == 5
\* batchOptimizer: the least and the greatest batch size it recommends
BatchFloor == 1
BatchCeiling == 4
BaseDelay == 2000
DelayCap == 60000
JitterRange == 500

NoOwner == "none"
Owners == {"u1", "u2"}
Exercises == {"default-1", "default-2"}

Entities == {"achievement", "mood_entry", "ai_profile", "treatment_plan",
             "voice_checkin", "user_profile"}
Types == {"CREATE", "UPDATE", "DELETE"}
Priorities == {"low", "normal", "high", "critical"}

PassIds == 1..MaxPasses
Workers == 1..Concurrency
Callers == 1..MaxCallers

(***************************************************************************)
(* Priority helpers                                                         *)
(***************************************************************************)
determinePriority(entity) ==
    CASE entity = "mood_entry"     -> "high"
      [] entity = "user_profile"   -> "high"
      [] entity = "voice_checkin"  -> "normal"
      [] entity = "ai_profile"     -> "normal"
      [] entity = "treatment_plan" -> "normal"
      [] entity = "achievement"    -> "low"
      [] OTHER                     -> "normal"

getPriorityWeight(priority) ==
    CASE priority = "critical" -> 4
      [] priority = "high"     -> 3
      [] priority = "normal"   -> 2
      [] priority = "low"      -> 1
      [] OTHER                 -> 2

\* A comparator that breaks ties newest first; the ordering property must tell it
\* from the comparator of the code.
CompareNewestFirst(a, b) ==
    LET priorityDiff == getPriorityWeight(b.priority) - getPriorityWeight(a.priority)
    IN  IF priorityDiff # 0 THEN priorityDiff ELSE b.timestamp - a.timestamp

\* The comparator of sortQueueByPriority: negative, zero or positive.
Compare(a, b) ==
    LET priorityDiff == getPriorityWeight(b.priority) - getPriorityWeight(a.priority)
    IN  IF priorityDiff # 0 THEN priorityDiff ELSE a.timestamp - b.timestamp

\* Array.prototype.sort is stable: an element is inserted after every element
\* that does not compare greater than it.
RECURSIVE InsertSorted(_, _)
InsertSorted(sorted, it) ==
    IF sorted = <<>> THEN <<it>>
    ELSE IF Compare(Head(sorted), it) <= 0
         THEN <<Head(sorted)>> \o InsertSorted(Tail(sorted), it)
         ELSE <<it>> \o sorted

RECURSIVE SortFrom(_, _)
SortFrom(items, acc) ==
    IF items = <<>> THEN acc
    ELSE SortFrom(Tail(items), InsertSorted(acc, Head(items)))

sortQueueByPriority(items) == SortFrom(items, <<>>)

(***************************************************************************)
(* Queue helpers                                                            *)
(***************************************************************************)
Range(s) == {s[i] : i \in DOMAIN s}
IdsOf(s) == {s[i].id : i \in DOMAIN s}

\* A removal by position (shift) instead of by id; the no-silent-drop property must
\* tell it from the filter of the code.
RemoveHead(q, id) == IF q = <<>> THEN q ELSE Tail(q)

\* this.syncQueue.filter(q => q.id !== id)
RemoveById(q, id) == SelectSeq(q, LAMBDA x : x.id # id)

\* this.syncQueue.find(q => q.id === id) as an index, 0 when there is none
FindIndex(q, id) ==
    IF id \in IdsOf(q) THEN CHOOSE i \in DOMAIN q : q[i].id = id /\ \A j \in 1..(i-1) : q[j].id # id
    ELSE 0

deriveUserId(it) == it.owner

Min(a, b) == IF a <= b THEN a ELSE b
Max(a, b) == IF a >= b THEN a ELSE b

\* Math.pow(2, n)
RECURSIVE Pow2(_)
Pow2(n) == IF n = 0 THEN 1 ELSE 2 * Pow2(n - 1)

\* A backoff without the cap; the bound on the delay must tell it from the code.
BackoffDelayUncapped(attempt, jitter) == BaseDelay * Pow2(attempt) + jitter

\* Math.min(base * Math.pow(2, attempt), 60000) + Math.floor(Math.random() * 500),
\* jitter being the value of Math.floor(Math.random() * 500)
BackoffDelay(attempt, jitter) == Min(BaseDelay * Pow2(attempt), DelayCap) + jitter

(***************************************************************************)
(* syncCircuitBreaker (@/utils/circuitBreaker)                              *)
(***************************************************************************)
BreakerStates == {"CLOSED", "OPEN", "HALF_OPEN"}
ClosedBreaker == [state |-> "CLOSED", failures |-> 0]

\* A breaker that lets every call through; failing fast must tell it from the
\* breaker.
AlwaysAdmits(b) == TRUE

\* execute(fn) calls fn unless the breaker is open
BreakerAdmits(b) == b.state # "OPEN"

\* the breaker after a call it let through has fulfilled: the count of consecutive
\* failures starts again, a probe that succeeds closes the breaker
BreakerOnSuccess(b) ==
    IF b.state = "OPEN" THEN b ELSE ClosedBreaker

\* the breaker after a call it let through has rejected: the failure is counted,
\* the threshold or a failed probe opens the breaker
BreakerOnFailure(b) ==
    CASE b.state = "CLOSED" ->
            IF b.failures + 1 >= BreakerThreshold
            THEN [state |-> "OPEN", failures |-> BreakerThreshold]
            ELSE [b EXCEPT !.failures = @ + 1]
      [] b.state = "HALF_OPEN" -> [state |-> "OPEN", failures |-> BreakerThreshold]
      [] OTHER -> b

(***************************************************************************)
(* State                                                                    *)
(***************************************************************************)
VARIABLES
    isOnline,       \* this.isOnline
    isSyncing,      \* this.isSyncing
    syncQueue,      \* this.syncQueue: sequence of SyncQueueItem
    stored,         \* AsyncStorage entry syncQueue_<user>: [has, q]
    load,           \* the un-awaited loadSyncQueue of the constructor: [pc, data]
    maint,          \* clearSyncQueue / cleanupStaleItems waiting for their save
    listening,      \* netInfoUnsubscribe is set: the NetInfo listener is registered
    breaker,        \* syncCircuitBreaker: [state, failures]
    account,        \* the current user id and the syncQueue_<user> entries of the other users
    optimizer,      \* batchOptimizer: the batch size it recommends
    bulk,           \* the call of bulkSyncMoodEntries, if one is running
    erp,            \* ERPService: the stored sessions and the calls that are running
    adds,           \* the addToSyncQueue calls in progress, per caller
    pass,           \* the processSyncQueue invocations: locals of the pass
    wk,             \* the runWorker coroutines of each pass
    cr,             \* the syncWithConflictResolution invocation
    dlq,            \* records accepted by deadLetterQueue.addToDeadLetter
    failedStore,    \* AsyncStorage entry failedSyncItems_<user>
    nextId,         \* number of ids drawn from generateSecureId
    clock,          \* Date.now()
    remoteRows,     \* remote store: rows that exist per queue item
    remoteOps,      \* remote calls made per queue item
    hist            \* history of the run: what was admitted, dispatched, applied ...

vars == <<isOnline, isSyncing, syncQueue, stored, load, maint, listening, breaker, account, optimizer, bulk, erp, adds,
          pass, wk,
          cr, dlq,
          failedStore, nextId, clock, remoteRows, remoteOps, hist>>

\* SyncQueueItem; owner is data.user_id / data.userId, hasId is whether data.id is set
Item(id, type, entity, owner, ts, retry, prio, hasId) ==
    [id |-> id, type |-> type, entity |-> entity, owner |-> owner, timestamp |-> ts,
     retryCount |-> retry, priority |-> prio, hasId |-> hasId]

ItemById(items, id) == items[FindIndex(items, id)]

IdleAdd == [pc |-> "idle", item |-> <<>>]
IdlePass == [phase |-> "idle", items |-> <<>>, consumed |-> {}, inflightUsers |-> {},
             successful |-> <<>>, failed |-> <<>>, conflicts |-> 0, order |-> <<>>,
             batchSize |-> 0,
             fbRead |-> [w \in Workers |-> <<>>]]
IdleWorker == [pc |-> "done", cur |-> 0, attempt |-> 0]
\* ERPService with nothing stored under erp_sessions_<user> and no call running
IdleErp == [sessions |-> <<>>, nextId |-> 1,
            start |-> [pc |-> "idle", session |-> <<>>, existing |-> <<>>],
            complete |-> [pc |-> "idle", id |-> 0, sessions |-> <<>>],
            started |-> {},                  \* ids of the sessions startSession has returned
            notFound |-> {},                 \* ids completeSession has not found
            saved |-> {}]                    \* ids saved to the remote store
IdleBulk == [pc |-> "idle", entries |-> 0, batchId |-> <<>>, calls |-> {}, pass |-> 0,
             result |-> [synced |-> 0, failed |-> 0]]
IdleCr == [pc |-> "idle", batch |-> <<>>, res |-> <<>>, rest |-> <<>>, size |-> 0,
           attempted |-> 0, successful |-> 0, failed |-> 0, conflicts |-> 0]

EmptyHist(q, n) ==
    [persisted |-> IdsOf(q),                 \* ids persisted as pending at construction
     enq |-> q,                              \* the items in the order they were pushed
     dispatched |-> {},                      \* ids handed to syncItem at least once
     applied |-> {},                         \* ids whose syncItem call fulfilled
     fails |-> [i \in 1..n |->        \* failed dispatches per id
                  IF i \in DOMAIN q THEN q[i].retryCount ELSE 0],
     archived |-> {},                        \* ids handleFailedSync has stored
     discarded |-> {},                       \* ids removed by queue maintenance
     invalid |-> 0,                          \* submissions the validator found invalid
     delays |-> [i \in 1..n |-> <<>>],       \* backoff delays computed per id, in order
     timedOut |-> {},                        \* ids whose dispatch ran into the call timeout
     changed |-> {},                         \* ids whose remote record another writer changed
     offline |-> {},                         \* ids pushed while the device was offline
     held |-> {},                            \* of these, the ids not yet seen by a reconnect
     calls |-> [i \in 1..n |-> 0],           \* remote calls made for an id that returned
     nfail |-> 0,                            \* failed dispatches of this run
     signals |-> <<>>,                       \* emitSyncCompleted calls of the pass that ended last
     preserved |-> <<>>,                     \* the persisted queue as the last cleanup() found it
     fastFails |-> [i \in 1..n |-> 0]]       \* of the failed dispatches, those the open breaker rejected

\* The state after the constructor, with `q` persisted by the previous run of the
\* process: the listener is registered and loadSyncQueue has been started; `loaded`
\* says whether it has already completed.
InitWith(q, n, loaded) ==
    /\ isOnline = TRUE
    /\ isSyncing = FALSE
    /\ syncQueue = IF loaded THEN q ELSE <<>>
    /\ stored = [has |-> q # <<>>, q |-> q]
    /\ load = [pc |-> IF loaded THEN "done" ELSE "read", data |-> [has |-> FALSE, q |-> <<>>]]
    /\ maint = FALSE
    /\ listening = TRUE
    /\ breaker = ClosedBreaker
    /\ account = [user |-> "u1", others |-> [u \in Owners |-> [has |-> FALSE, q |-> <<>>]]]
    /\ optimizer = BatchCeiling
    /\ bulk = IdleBulk
    /\ erp = IdleErp
    /\ adds = [c \in Callers |-> IdleAdd]
    /\ pass = [p \in PassIds |-> IdlePass]
    /\ wk = [p \in PassIds |-> [w \in Workers |-> IdleWorker]]
    /\ cr = IdleCr
    /\ dlq = {}
    /\ failedStore = <<>>
    /\ nextId = Len(q)
    /\ clock = Len(q)
    /\ remoteRows = [i \in 1..n |-> 0]
    /\ remoteOps = [i \in 1..n |-> {}]
    /\ hist = EmptyHist(q, n)

\* The state once loadSyncQueue has read `q` from storage.
InitLoaded(q, n) == InitWith(q, n, TRUE)

(***************************************************************************)
(* processSyncQueue: the locals of a pass and its workers                   *)
(***************************************************************************)
\* pickCandidate: the first item of the sorted snapshot that is not consumed and
\* whose owner is not in flight; 0 when there is none
pickCandidate(itemsToSync, consumed, inflightUsers) ==
    LET ok(i) == /\ itemsToSync[i].id \notin consumed
                 /\ ~(deriveUserId(itemsToSync[i]) # NoOwner
                      /\ deriveUserId(itemsToSync[i]) \in inflightUsers)
    IN  IF \E i \in DOMAIN itemsToSync : ok(i)
        THEN itemsToSync[CHOOSE i \in DOMAIN itemsToSync :
                            ok(i) /\ \A j \in 1..(i-1) : ~ok(j)].id
        ELSE 0

\* A worker that waits for an in-flight owner to be released when items are left
\* and none can be picked; termination of the pass must tell it from the code.
RunWorkerBlocking(ps, b) ==
    LET id == pickCandidate(ps.items, ps.consumed, ps.inflightUsers)
        uid == deriveUserId(ItemById(ps.items, id))
    IN  IF id = 0
        THEN [ps |-> ps,
              w |-> [pc |-> IF \A i \in DOMAIN ps.items : ps.items[i].id \in ps.consumed
                            THEN "done" ELSE "blocked",
                     cur |-> 0, attempt |-> 0]]
        ELSE [ps |-> [ps EXCEPT !.inflightUsers = IF uid # NoOwner THEN @ \cup {uid} ELSE @,
                                !.consumed = @ \cup {id},
                                !.order = Append(@, id)],
              w  |-> [pc |-> IF BreakerAdmits(b) THEN "call" ELSE "fastfail",
                      cur |-> id, attempt |-> 0]]

\* One turn of runWorker's loop up to the await of the dispatch: pick, mark the
\* owner in flight, mark the item consumed, call syncItem.
RunWorkerWith(ps, b) ==
    LET id == pickCandidate(ps.items, ps.consumed, ps.inflightUsers)
        uid == deriveUserId(ItemById(ps.items, id))
    IN  IF id = 0
        THEN [ps |-> ps, w |-> [pc |-> "done", cur |-> 0, attempt |-> 0]]
        ELSE [ps |-> [ps EXCEPT !.inflightUsers = IF uid # NoOwner THEN @ \cup {uid} ELSE @,
                                !.consumed = @ \cup {id},
                                !.order = Append(@, id)],
              w  |-> [pc |-> IF BreakerAdmits(b) THEN "call" ELSE "fastfail",
                      cur |-> id, attempt |-> 0]]

RunWorker(ps) == RunWorkerWith(ps, breaker)

\* A worker that leaves its loop after the item it worked on; containment of a
\* failure must tell it from the code.
ReleaseAndStop(ps, id) ==
    LET uid == deriveUserId(ItemById(ps.items, id))
    IN  [ps |-> [ps EXCEPT !.inflightUsers = IF uid # NoOwner THEN @ \ {uid} ELSE @],
         w |-> IdleWorker]

\* The finally block of a turn followed by the next turn of the loop.
ReleaseAndPickWith(ps, id, b) ==
    LET uid == deriveUserId(ItemById(ps.items, id))
    IN  RunWorkerWith([ps EXCEPT !.inflightUsers = IF uid # NoOwner THEN @ \ {uid} ELSE @], b)

ReleaseAndPick(ps, id) == ReleaseAndPickWith(ps, id, breaker)

\* Array.from({length: min(concurrency, n)}, () => runWorker()): the workers start
\* one after the other, each running up to its first await.
RECURSIVE StartWorkers(_, _, _, _)
StartWorkers(ps, ws, k, n) ==
    IF k > n THEN [ps |-> ps, ws |-> ws]
    ELSE LET r == RunWorker(ps)
         IN  StartWorkers(r.ps, [ws EXCEPT ![k] = r.w], k + 1, n)

\* batchOptimizer.calculate(pending): the recommended batch size, at most the
\* number of pending items
calculate(pending) == Min(optimizer, pending)

\* batchOptimizer.record(size, ok, ms): the recommendations that may follow a pass.
\* A pass with a failure keeps or halves the size, a pass without one keeps or
\* doubles it, between BatchFloor and BatchCeiling.
record(ok) ==
    IF ok THEN {optimizer, Min(BatchCeiling, optimizer * 2)}
    ELSE {optimizer, Max(BatchFloor, optimizer \div 2)}

FreePass(passv) == {p \in PassIds : passv[p].phase = "idle"}

\* processSyncQueue() up to its first await, as a function of the state it reads.
\* started is FALSE when the guard returns at once.
ProcessSyncQueue(online, syncing, q, passv, wkv) ==
    IF syncing \/ ~online \/ Len(q) = 0 \/ FreePass(passv) = {}
    THEN [started |-> FALSE, isSyncing |-> syncing, pass |-> passv, wk |-> wkv,
          dispatched |-> {}]
    ELSE LET p == CHOOSE x \in FreePass(passv) : \A y \in FreePass(passv) : x <= y
             itemsToSync == sortQueueByPriority(q)
             r == StartWorkers([IdlePass EXCEPT !.phase = "workers", !.items = itemsToSync,
                                               !.batchSize = calculate(Len(itemsToSync))],
                               [w \in Workers |-> IdleWorker], 1,
                               Min(Concurrency, Len(itemsToSync)))
         IN  [started |-> TRUE, isSyncing |-> TRUE,
              pass |-> [passv EXCEPT ![p] = r.ps],
              wk |-> [wkv EXCEPT ![p] = r.ws],
              dispatched |-> r.ps.consumed]

\* A call of processSyncQueue() that is not awaited: the caller goes on.
CallProcessSyncQueueWith(online, q, h) ==
    LET r == ProcessSyncQueue(online, isSyncing, q, pass, wk)
    IN  /\ isSyncing' = r.isSyncing
        /\ pass' = r.pass
        /\ wk' = r.wk
        /\ hist' = [h EXCEPT !.dispatched = @ \cup r.dispatched]

CallProcessSyncQueue(online, q) == CallProcessSyncQueueWith(online, q, hist)

(***************************************************************************)
(* Entity adapters (syncItem) and the remote store                          *)
(***************************************************************************)
\* The remote call syncItem makes for an item, "none" when the adapter returns
\* without calling the remote side.
syncUserProfile(it) == "upsertUserProfile"
syncAIProfile(it) == "upsertAIProfile"
syncTreatmentPlan(it) == "upsertAITreatmentPlan"
syncAchievement(it) ==
    CASE it.type = "CREATE" -> "user_achievements.upsert"
      [] it.type = "UPDATE" -> "user_achievements.update"
      [] OTHER              -> "none"
syncMoodEntry(it) ==
    IF it.type = "DELETE"
    THEN IF it.hasId THEN "deleteMoodEntry" ELSE "none"
    ELSE "saveMoodEntry"
syncVoiceCheckin(it) ==
    CASE it.type \in {"CREATE", "UPDATE"} -> "saveVoiceCheckin"
      [] it.type = "DELETE" -> IF it.hasId THEN "deleteVoiceCheckin" ELSE "none"
      [] OTHER -> "none"

syncItem(it) ==
    CASE it.entity = "user_profile"   -> syncUserProfile(it)
      [] it.entity = "ai_profile"     -> syncAIProfile(it)
      [] it.entity = "treatment_plan" -> syncTreatmentPlan(it)
      [] it.entity = "achievement"    -> syncAchievement(it)
      [] it.entity = "mood_entry"     -> syncMoodEntry(it)
      [] it.entity = "voice_checkin"  -> syncVoiceCheckin(it)
      [] OTHER                        -> "throw"

DeleteCalls == {"deleteMoodEntry", "deleteVoiceCheckin"}
UpsertCalls == {"upsertUserProfile", "upsertAIProfile", "upsertAITreatmentPlan",
                "user_achievements.upsert"}
WriteCalls == UpsertCalls \cup {"user_achievements.update", "saveMoodEntry",
                                "saveVoiceCheckin"}

\* Whether the call carries a key the remote side can recognise the record by:
\* the upserts name their conflict columns, saveVoiceCheckin passes data.id along
\* when there is one, saveMoodEntry is given an entry rebuilt without any id.
PresentsKey(call, it) ==
    \/ call \in UpsertCalls
    \/ call = "saveVoiceCheckin" /\ it.hasId

\* The remote store keeps, per queue item, the number of rows its calls left.
\* A write that presents a key is applied once; a write without one adds a row.
RemoteApply(rows, call, it) ==
    CASE call \in DeleteCalls -> 0
      [] call = "user_achievements.update" -> rows
      [] call \in WriteCalls /\ PresentsKey(call, it) -> IF rows = 0 THEN 1 ELSE rows
      [] call \in WriteCalls -> rows + 1
      [] OTHER -> rows

\* The effect on the remote store of a syncItem call that fulfils.
RemoteEffect(it) ==
    LET call == syncItem(it)
    IN  /\ remoteRows' = [remoteRows EXCEPT ![it.id] = RemoteApply(@, call, it)]
        /\ remoteOps' = [remoteOps EXCEPT ![it.id] = IF call = "none" THEN @ ELSE @ \cup {call}]

\* Another writer changes the remote record an UPDATE item of the queue was derived
\* from, before the item is dispatched.
RemoteChange(id) ==
    /\ id \in IdsOf(syncQueue) \ (hist.changed \cup hist.dispatched)
    /\ ItemById(syncQueue, id).type = "UPDATE"
    /\ hist' = [hist EXCEPT !.changed = @ \cup {id}]
    /\ UNCHANGED <<isOnline, isSyncing, syncQueue, stored, load, maint, listening, account, optimizer, bulk, breaker, adds,
                   pass, wk, cr, dlq, failedStore, nextId, clock, remoteRows, remoteOps, erp>>

\* The entry syncQueue_<u> of AsyncStorage: `stored` is the entry under the key of
\* the current user, account.others holds the entries of the other keys.
StoreOf(u) == IF u = account.user THEN stored ELSE account.others[u]

\* Another user signs in: currentUserId / getCurrentUserId() now return u, so that
\* saveSyncQueue computes the key syncQueue_<u>. The service keeps running on its
\* in-memory queue.
ChangeUser(u) ==
    /\ u # account.user
    /\ account' = [user |-> u, others |-> [account.others EXCEPT ![account.user] = stored]]
    /\ stored' = account.others[u]
    /\ UNCHANGED <<isOnline, isSyncing, syncQueue, load, maint, listening, breaker, optimizer, bulk, adds,
                   pass, wk, cr, dlq, failedStore, nextId, clock, remoteRows, remoteOps, hist, erp>>

\* saveSyncQueue at its setItem: the queue is serialised as it is at that moment.
SaveSyncQueue(q) == stored' = [has |-> TRUE, q |-> q]

(***************************************************************************)
(* addToSyncQueue                                                           *)
(***************************************************************************)
\* An addToSyncQueue that ignores the verdict; the rejection property must tell it
\* from the code.
AdmitAll(isValid) == TRUE

\* What addToSyncQueue does with the validator's verdict.
Admit(isValid) == isValid

\* generateSecureId(): an id no earlier call has returned, given the number of ids
\* drawn so far
generateSecureId(drawn) == drawn + 1

\* From the call to the construction of syncItem: validate, sanitise, draw the id
\* and the timestamp. An invalid item is dropped here.
AddValidate(c, kinds, owners, verdicts, ticks, limit) ==
    /\ adds[c].pc = "idle"
    /\ \E k \in kinds, o \in owners, isValid \in verdicts, tick \in ticks :
        /\ IF isValid THEN nextId < limit ELSE hist.invalid < MaxRejects /\ nextId < limit
        /\ clock' = clock + tick
        /\ hist' = [hist EXCEPT !.invalid = IF isValid THEN @ ELSE @ + 1]
        /\ IF Admit(isValid)
           THEN /\ nextId' = nextId + 1
                /\ adds' = [adds EXCEPT ![c] =
                      [pc |-> "push",
                       item |-> Item(generateSecureId(nextId), k.type, k.entity, o, clock + tick, 0,
                                     determinePriority(k.entity), k.hasId)]]
           ELSE UNCHANGED <<nextId, adds, erp>>
    /\ UNCHANGED <<isOnline, isSyncing, syncQueue, stored, load, maint, listening, account, optimizer, bulk, breaker, pass, wk, cr, dlq,
                   failedStore, remoteRows, remoteOps, erp>>

\* An enqueue that assigns a one-item queue instead of pushing; the no-loss property
\* must tell it from the push of the code.
AddPushReplacing(c) ==
    /\ adds[c].pc = "push"
    /\ syncQueue' = <<adds[c].item>>
    /\ hist' = [hist EXCEPT !.enq = Append(@, adds[c].item),
                            !.offline = IF isOnline THEN @ ELSE @ \cup {adds[c].item.id},
                            !.held = IF isOnline THEN @ ELSE @ \cup {adds[c].item.id}]
    /\ adds' = [adds EXCEPT ![c] = [pc |-> "save", item |-> <<>>]]
    /\ UNCHANGED <<isOnline, isSyncing, stored, load, maint, listening, account, optimizer, bulk, breaker, pass, wk, cr, dlq, failedStore,
                   nextId, clock, remoteRows, remoteOps, erp>>

\* this.syncQueue.push(syncItem), then saveSyncQueue starts
AddPush(c) ==
    /\ adds[c].pc = "push"
    /\ syncQueue' = Append(syncQueue, adds[c].item)
    /\ hist' = [hist EXCEPT !.enq = Append(@, adds[c].item),
                            !.offline = IF isOnline THEN @ ELSE @ \cup {adds[c].item.id},
                            !.held = IF isOnline THEN @ ELSE @ \cup {adds[c].item.id}]
    /\ adds' = [adds EXCEPT ![c] = [pc |-> "save", item |-> <<>>]]
    /\ UNCHANGED <<isOnline, isSyncing, stored, load, maint, listening, account, optimizer, bulk, breaker, pass, wk, cr, dlq, failedStore,
                   nextId, clock, remoteRows, remoteOps, erp>>

\* saveSyncQueue reaches AsyncStorage.setItem
AddSave(c) ==
    /\ adds[c].pc = "save"
    /\ SaveSyncQueue(syncQueue)
    /\ adds' = [adds EXCEPT ![c].pc = "trigger"]
    /\ UNCHANGED <<isOnline, isSyncing, syncQueue, load, maint, listening, account, optimizer, bulk, breaker, pass, wk, cr, dlq, failedStore,
                   nextId, clock, remoteRows, remoteOps, hist, erp>>

\* if (this.isOnline) this.processSyncQueue()
AddTrigger(c) ==
    /\ adds[c].pc = "trigger"
    /\ adds' = [adds EXCEPT ![c] = IdleAdd]
    /\ IF isOnline THEN CallProcessSyncQueue(isOnline, syncQueue)
                   ELSE UNCHANGED <<isSyncing, pass, wk, hist>>
    /\ UNCHANGED <<isOnline, syncQueue, stored, load, maint, listening, account, optimizer, bulk, breaker, cr, dlq, failedStore, nextId,
                   clock, remoteRows, remoteOps, erp>>

(***************************************************************************)
(* bulkSyncMoodEntries                                                      *)
(***************************************************************************)
\* An item tagged with the batchId of a bulk submission; batchId is an optional
\* property of SyncQueueItem.
WithBatchId(it, b) ==
    [f \in DOMAIN it \cup {"batchId"} |-> IF f = "batchId" THEN b ELSE it[f]]
HasBatchId(it, b) == "batchId" \in DOMAIN it /\ it.batchId = b

\* bulkSyncMoodEntries after its call of processSyncQueue has returned: the items of
\* the batch still in the queue are counted as failed, all other entries as synced.
BulkCount(q) ==
    LET remainingBatchItems == SelectSeq(q, LAMBDA it : HasBatchId(it, bulk.batchId))
    IN  [bulk EXCEPT !.pc = "done",
                     !.result = [synced |-> bulk.entries - Len(remainingBatchItems),
                                 failed |-> Len(remainingBatchItems)]]

\* bulkSyncMoodEntries(entries, userId) up to Promise.allSettled: with no entries or
\* a userId that is not a UUID it returns {synced: 0, failed: 0}; otherwise it draws
\* the batchId and calls addToSyncQueue once per entry.
BulkStart(n, userId, isUUID) ==
    /\ bulk.pc = "idle"
    /\ \A c \in Callers : adds[c].pc = "idle"
    /\ n <= MaxCallers
    /\ IF n = 0 \/ ~isUUID
       THEN /\ bulk' = [IdleBulk EXCEPT !.pc = "done", !.entries = n]
            /\ UNCHANGED adds
       ELSE /\ bulk' = [IdleBulk EXCEPT !.pc = "adding", !.entries = n,
                                        !.batchId = <<"mood_bulk", clock, userId>>,
                                        !.calls = 1..n]
            /\ adds' = [c \in Callers |-> IF c <= n THEN [pc |-> "called", item |-> <<>>]
                                                    ELSE adds[c]]
    /\ UNCHANGED <<isOnline, isSyncing, syncQueue, stored, load, maint, listening, account, optimizer,
                   breaker, pass, wk, cr, dlq, failedStore, nextId, clock, remoteRows, remoteOps,
                   hist, erp>>

\* One of the addToSyncQueue calls of the batch, from the call to the construction
\* of syncItem: a CREATE of a mood_entry of the batch's user with the batchId.
BulkValidate(c, verdicts, ticks, limit) ==
    /\ adds[c].pc = "called"
    /\ \E isValid \in verdicts, tick \in ticks :
        /\ IF isValid THEN nextId < limit ELSE hist.invalid < MaxRejects /\ nextId < limit
        /\ clock' = clock + tick
        /\ hist' = [hist EXCEPT !.invalid = IF isValid THEN @ ELSE @ + 1]
        /\ IF Admit(isValid)
           THEN /\ nextId' = nextId + 1
                /\ adds' = [adds EXCEPT ![c] =
                      [pc |-> "push",
                       item |-> WithBatchId(Item(generateSecureId(nextId), "CREATE", "mood_entry",
                                                 bulk.batchId[3], clock + tick, 0,
                                                 determinePriority("mood_entry"), FALSE),
                                            bulk.batchId)]]
           ELSE /\ adds' = [adds EXCEPT ![c] = IdleAdd]
                /\ UNCHANGED nextId
    /\ UNCHANGED <<isOnline, isSyncing, syncQueue, stored, load, maint, listening, account, optimizer, bulk, breaker, pass, wk, cr, dlq,
                   failedStore, remoteRows, remoteOps, erp>>

\* Promise.allSettled(promises) resolves when every addToSyncQueue call of the
\* batch has returned; the 100 ms timer is started.
BulkSettled ==
    /\ bulk.pc = "adding"
    /\ \A c \in bulk.calls : adds[c].pc = "idle"
    /\ bulk' = [bulk EXCEPT !.pc = "wait", !.calls = {}]
    /\ UNCHANGED <<isOnline, isSyncing, syncQueue, stored, load, maint, listening, account, optimizer,
                   breaker, adds, pass, wk, cr, dlq, failedStore, nextId, clock, remoteRows,
                   remoteOps, hist, erp>>

\* The timer fires: if (this.isOnline) await this.processSyncQueue(). When no pass
\* is started the result is counted at once, otherwise when the pass returns.
BulkProcess ==
    /\ bulk.pc = "wait"
    /\ LET r == ProcessSyncQueue(isOnline, isSyncing, syncQueue, pass, wk)
       IN  IF isOnline /\ r.started
           THEN /\ CallProcessSyncQueue(isOnline, syncQueue)
                /\ bulk' = [bulk EXCEPT !.pc = "pass",
                                        !.pass = CHOOSE p \in PassIds :
                                                    pass[p].phase # r.pass[p].phase]
           ELSE /\ bulk' = BulkCount(syncQueue)
                /\ UNCHANGED <<isSyncing, pass, wk, hist>>
    /\ UNCHANGED <<isOnline, syncQueue, stored, load, maint, listening, account, optimizer, breaker,
                   adds, cr, dlq, failedStore, nextId, clock, remoteRows, remoteOps, erp>>

\* the caller has the result
BulkReturn ==
    /\ bulk.pc = "done"
    /\ bulk' = IdleBulk
    /\ UNCHANGED <<isOnline, isSyncing, syncQueue, stored, load, maint, listening, account, optimizer,
                   breaker, adds, pass, wk, cr, dlq, failedStore, nextId, clock, remoteRows,
                   remoteOps, hist, erp>>

(***************************************************************************)
(* runWorker: the continuation of a dispatch                                *)
(***************************************************************************)
CurItem(p, w) == ItemById(pass[p].items, wk[p][w].cur)

\* The worker goes on to its finally block and the next turn of its loop.
WorkerContinue(p, w, ps) ==
    LET r == ReleaseAndPick(ps, wk[p][w].cur)
    IN  /\ pass' = [pass EXCEPT ![p] = r.ps]
        /\ wk' = [wk EXCEPT ![p][w] = r.w]
        /\ hist' = [hist EXCEPT !.dispatched =
                        IF r.w.cur = 0 THEN @ ELSE @ \cup {r.w.cur}]

\* syncCircuitBreaker.execute(() => this.syncItem(current)) fulfils: the item is
\* recorded as successful and filtered out of this.syncQueue; the telemetry awaits
\* follow.
WorkerCallOk(p, w) ==
    /\ wk[p][w].pc = "call"
    /\ RemoteEffect(CurItem(p, w))
    /\ syncQueue' = RemoveById(syncQueue, wk[p][w].cur)
    /\ pass' = [pass EXCEPT ![p].successful = Append(@, wk[p][w].cur)]
    /\ wk' = [wk EXCEPT ![p][w].pc = "okTail"]
    /\ breaker' = BreakerOnSuccess(breaker)
    /\ hist' = [hist EXCEPT !.applied = @ \cup {wk[p][w].cur},
                            !.calls[wk[p][w].cur] =
                                IF syncItem(CurItem(p, w)) = "none" THEN @ ELSE @ + 1]
    /\ UNCHANGED <<isOnline, isSyncing, stored, load, maint, listening, account, optimizer, bulk, adds, cr, dlq, failedStore,
                   nextId, clock, erp>>

\* after the telemetry of a success: finally, then the next item
WorkerOkTail(p, w) ==
    /\ wk[p][w].pc = "okTail"
    /\ WorkerContinue(p, w, pass[p])
    /\ UNCHANGED <<isOnline, isSyncing, syncQueue, stored, load, maint, listening, account, optimizer, bulk, breaker, adds, cr, dlq,
                   failedStore, nextId, clock, remoteRows, remoteOps, erp>>

\* The dispatch rejects. If the item is still in this.syncQueue its retryCount is
\* incremented and the worker sleeps for the backoff delay; if not, the worker
\* goes on at once.
CallRejected(p, w, jitters) ==
    /\ LET id == wk[p][w].cur
           i == FindIndex(syncQueue, id)
           b == IF wk[p][w].pc = "fastfail" THEN breaker ELSE BreakerOnFailure(breaker)
           h == [hist EXCEPT !.nfail = @ + 1, !.fails[id] = @ + 1,
                             !.timedOut = IF wk[p][w].pc = "hung" THEN @ \cup {id} ELSE @,
                             !.fastFails[id] = IF wk[p][w].pc = "fastfail" THEN @ + 1 ELSE @]
       IN  /\ breaker' = b
           /\ IF i # 0
              THEN /\ syncQueue' = [syncQueue EXCEPT ![i].retryCount = @ + 1]
                   /\ pass' = [pass EXCEPT ![p].failed = Append(@, id)]
                   /\ wk' = [wk EXCEPT ![p][w] =
                               [pc |-> "backoff", cur |-> id,
                                attempt |-> syncQueue[i].retryCount + 1]]
                   /\ \E jitter \in jitters :
                         hist' = [h EXCEPT !.delays[id] =
                                    Append(@, [attempt |-> syncQueue[i].retryCount + 1,
                                               delay |-> BackoffDelay(syncQueue[i].retryCount + 1,
                                                                      jitter)])]
              ELSE LET r == ReleaseAndPickWith(pass[p], id, b)
                   IN  /\ pass' = [pass EXCEPT ![p] = r.ps]
                       /\ wk' = [wk EXCEPT ![p][w] = r.w]
                       /\ hist' = [h EXCEPT !.dispatched =
                                      IF r.w.cur = 0 THEN @ ELSE @ \cup {r.w.cur}]
                       /\ UNCHANGED syncQueue
    /\ UNCHANGED <<isOnline, isSyncing, stored, load, maint, listening, account, optimizer, bulk, adds, cr, dlq, failedStore,
                   nextId, clock, remoteRows, remoteOps, erp>>

\* the dispatch rejects
WorkerCallFail(p, w, limit, jitters) ==
    /\ wk[p][w].pc = "call"
    /\ hist.nfail < limit
    /\ CallRejected(p, w, jitters)

\* The adapter's remote call does not return: the worker stays at the await of
\* syncCircuitBreaker.execute.
WorkerCallHang(p, w, limit) ==
    /\ wk[p][w].pc = "call"
    /\ hist.nfail + Cardinality({pw \in PassIds \X Workers : wk[pw[1]][pw[2]].pc = "hung"}) < limit
    /\ wk' = [wk EXCEPT ![p][w].pc = "hung"]
    /\ UNCHANGED <<isOnline, isSyncing, syncQueue, stored, load, maint, listening, account, optimizer, bulk, breaker, adds, pass, cr,
                   dlq, failedStore, nextId, clock, remoteRows, remoteOps, hist, erp>>

\* A call timeout that never expires; the end of a pass must tell it from the
\* timeout of the call.
NeverExpires(pc) == FALSE

\* The per-call timeout of a dispatch expires when the call has not returned.
TimeoutExpires(pc) == pc = "hung"

\* A fast failure that is not counted as an attempt: the worker goes on to its next
\* item; the counting of rejections must tell it from the code.
FastFailUncounted(p, w, jitters) ==
    /\ wk[p][w].pc = "fastfail"
    /\ WorkerContinue(p, w, pass[p])
    /\ UNCHANGED <<isOnline, isSyncing, syncQueue, stored, load, maint, listening, account, optimizer,
                   bulk, breaker, adds, cr, dlq, failedStore, nextId, clock, remoteRows, remoteOps, erp>>

\* The breaker is open: execute rejects without calling syncItem, and the catch
\* block of runWorker runs as for any failed dispatch.
WorkerFastFail(p, w, jitters) ==
    /\ wk[p][w].pc = "fastfail"
    /\ CallRejected(p, w, jitters)

\* the cool-down of the open breaker has elapsed: the next call is let through
BreakerCoolDown ==
    /\ breaker.state = "OPEN"
    /\ breaker' = [breaker EXCEPT !.state = "HALF_OPEN"]
    /\ UNCHANGED <<isOnline, isSyncing, syncQueue, stored, load, maint, listening, account, optimizer, bulk, adds, pass, wk,
                   cr, dlq, failedStore, nextId, clock, remoteRows, remoteOps, hist, erp>>

\* The per-call timeout expires: execute rejects and the catch block of runWorker
\* runs as for any failed dispatch.
WorkerCallTimeout(p, w, jitters) ==
    /\ TimeoutExpires(wk[p][w].pc)
    /\ CallRejected(p, w, jitters)

\* The backoff delay has elapsed. At the retry ceiling the item is filtered out of
\* this.syncQueue and handleFailedSync is awaited; below it the worker goes on.
WorkerBackoffEnd(p, w) ==
    /\ wk[p][w].pc = "backoff"
    /\ IF wk[p][w].attempt >= RetryCeiling
       THEN /\ syncQueue' = RemoveById(syncQueue, wk[p][w].cur)
            /\ wk' = [wk EXCEPT ![p][w].pc = "dlq"]
            /\ UNCHANGED <<pass, hist>>
       ELSE /\ WorkerContinue(p, w, pass[p])
            /\ UNCHANGED syncQueue
    /\ UNCHANGED <<isOnline, isSyncing, stored, load, maint, listening, account, optimizer, bulk, breaker, adds, cr, dlq, failedStore,
                   nextId, clock, remoteRows, remoteOps, erp>>

\* What handleFailedSync hands to deadLetterQueue.addToDeadLetter
DeadLetterArgs(it) ==
    [id |-> it.id, type |-> it.type, entity |-> it.entity, owner |-> it.owner,
     hasId |-> it.hasId, errorMessage |-> "Max retries exceeded"]

\* The item handleFailedSync was called with: the queue item as it was found when
\* the dispatch failed.
FailedItem(p, w) == [CurItem(p, w) EXCEPT !.retryCount = wk[p][w].attempt]

\* deadLetterQueue.addToDeadLetter accepts the item
WorkerDlqOk(p, w) ==
    /\ wk[p][w].pc = "dlq"
    /\ dlq' = dlq \cup {DeadLetterArgs(FailedItem(p, w))}
    /\ LET r == ReleaseAndPick(pass[p], wk[p][w].cur)
       IN  /\ pass' = [pass EXCEPT ![p] = r.ps]
           /\ wk' = [wk EXCEPT ![p][w] = r.w]
           /\ hist' = [hist EXCEPT !.archived = @ \cup {wk[p][w].cur},
                                   !.dispatched = IF r.w.cur = 0 THEN @ ELSE @ \cup {r.w.cur}]
    /\ UNCHANGED <<isOnline, isSyncing, syncQueue, stored, load, maint, listening, account, optimizer, bulk, breaker, adds, cr, failedStore,
                   nextId, clock, remoteRows, remoteOps, erp>>

\* deadLetterQueue.addToDeadLetter throws: the fallback reads failedSyncItems_<user>
WorkerDlqThrow(p, w) ==
    /\ wk[p][w].pc = "dlq"
    /\ wk' = [wk EXCEPT ![p][w].pc = "fallback"]
    /\ pass' = [pass EXCEPT ![p].fbRead = [@ EXCEPT ![w] = failedStore]]
    /\ UNCHANGED <<isOnline, isSyncing, syncQueue, stored, load, maint, listening, account, optimizer, bulk, breaker, adds, cr, dlq,
                   failedStore, nextId, clock, remoteRows, remoteOps, hist, erp>>

\* the fallback pushes the item on what it read and writes it back
WorkerFallbackWrite(p, w) ==
    /\ wk[p][w].pc = "fallback"
    /\ failedStore' = Append(pass[p].fbRead[w], FailedItem(p, w))
    /\ LET r == ReleaseAndPick([pass[p] EXCEPT !.fbRead[w] = <<>>], wk[p][w].cur)
       IN  /\ pass' = [pass EXCEPT ![p] = r.ps]
           /\ wk' = [wk EXCEPT ![p][w] = r.w]
           /\ hist' = [hist EXCEPT !.archived = @ \cup {wk[p][w].cur},
                                   !.dispatched = IF r.w.cur = 0 THEN @ ELSE @ \cup {r.w.cur}]
    /\ UNCHANGED <<isOnline, isSyncing, syncQueue, stored, load, maint, listening, account, optimizer, bulk, breaker, adds, cr, dlq,
                   nextId, clock, remoteRows, remoteOps, erp>>

\* Promise.all(workers) has resolved: saveSyncQueue writes the queue
PassSave(p) ==
    /\ pass[p].phase = "workers"
    /\ \A w \in Workers : wk[p][w].pc = "done"
    /\ SaveSyncQueue(syncQueue)
    /\ pass' = [pass EXCEPT ![p].phase = "summary"]
    /\ UNCHANGED <<isOnline, isSyncing, syncQueue, load, maint, listening, account, optimizer, bulk, breaker, adds, wk, cr, dlq, failedStore,
                   nextId, clock, remoteRows, remoteOps, hist, erp>>

\* The calls of emitSyncCompleted(syncedEntities, userId) a pass makes once its
\* workers are done: one call if an item succeeded, with the entities of the
\* successful items and the owner of the first of them.
SyncCompleted(ps) ==
    IF Len(ps.successful) > 0
    THEN <<[entities |-> {ItemById(ps.items, id).entity : id \in Range(ps.successful)},
            userId |-> deriveUserId(ItemById(ps.items, ps.successful[1]))]>>
    ELSE <<>>

\* the cache invalidation is emitted, the summary is written and the finally block
\* resets isSyncing
PassFinish(p) ==
    /\ pass[p].phase = "summary"
    /\ isSyncing' = FALSE
    /\ pass' = [pass EXCEPT ![p] = IdlePass]
    /\ hist' = [hist EXCEPT !.signals = SyncCompleted(pass[p])]
    /\ optimizer' \in record(Len(pass[p].failed) = 0)
    /\ bulk' = IF bulk.pc = "pass" /\ bulk.pass = p THEN BulkCount(syncQueue) ELSE bulk
    /\ UNCHANGED <<isOnline, syncQueue, stored, load, maint, listening, account, breaker, adds, wk, cr, dlq, failedStore,
                   nextId, clock, remoteRows, remoteOps, erp>>

(***************************************************************************)
(* Connectivity and on-demand sync                                          *)
(***************************************************************************)
\* the NetInfo listener
NetInfoEvent(isConnected) ==
    /\ listening
    /\ isOnline # isConnected
    /\ isOnline' = isConnected
    /\ IF ~isOnline /\ isConnected
       THEN CallProcessSyncQueueWith(isConnected, syncQueue, [hist EXCEPT !.held = {}])
       ELSE UNCHANGED <<isSyncing, pass, wk, hist>>
    /\ UNCHANGED <<syncQueue, stored, load, maint, listening, account, optimizer, bulk, breaker, adds, cr, dlq, failedStore, nextId, clock,
                   remoteRows, remoteOps, erp>>

\* forceSyncNow, or any other direct call of processSyncQueue that starts a pass
ForceSyncNow ==
    /\ isOnline
    /\ ProcessSyncQueue(isOnline, isSyncing, syncQueue, pass, wk).started
    /\ CallProcessSyncQueue(isOnline, syncQueue)
    /\ UNCHANGED <<isOnline, syncQueue, stored, load, maint, listening, account, optimizer, bulk, breaker, adds, cr, dlq, failedStore, nextId,
                   clock, remoteRows, remoteOps, erp>>

(***************************************************************************)
(* syncWithConflictResolution                                               *)
(***************************************************************************)
Pending(n) == [i \in 1..n |-> "pending"]

\* items.slice(i, i + batchSize) of what is left, dispatched with
\* batch.map(it => this.syncItem(it))
NextBatch(c, items) ==
    LET n == Min(c.size, Len(items))
    IN  [c EXCEPT !.pc = "wait", !.batch = SubSeq(items, 1, n), !.res = Pending(n),
                  !.rest = SubSeq(items, n + 1, Len(items))]

CrStart(batchSize) ==
    /\ cr.pc = "idle"
    /\ isOnline /\ Len(syncQueue) # 0
    /\ cr' = NextBatch([IdleCr EXCEPT !.size = batchSize, !.attempted = Len(syncQueue)],
                       syncQueue)
    /\ hist' = [hist EXCEPT !.dispatched = @ \cup IdsOf(cr'.batch)]
    /\ UNCHANGED <<isOnline, isSyncing, syncQueue, stored, load, maint, listening, account, optimizer, bulk, breaker, adds, pass, wk, dlq,
                   failedStore, nextId, clock, remoteRows, remoteOps, erp>>

\* one syncItem call of the batch fulfils
CrCallOk(i) ==
    /\ cr.pc = "wait" /\ i \in DOMAIN cr.res /\ cr.res[i] = "pending"
    /\ RemoteEffect(cr.batch[i])
    /\ cr' = [cr EXCEPT !.res[i] = "fulfilled"]
    /\ hist' = [hist EXCEPT !.applied = @ \cup {cr.batch[i].id},
                            !.calls[cr.batch[i].id] =
                                IF syncItem(cr.batch[i]) = "none" THEN @ ELSE @ + 1]
    /\ UNCHANGED <<isOnline, isSyncing, syncQueue, stored, load, maint, listening, account, optimizer, bulk, breaker, adds, pass, wk, dlq,
                   failedStore, nextId, clock, erp>>

\* one syncItem call of the batch rejects
CrCallFail(i, limit) ==
    /\ cr.pc = "wait" /\ i \in DOMAIN cr.res /\ cr.res[i] = "pending"
    /\ hist.nfail < limit
    /\ cr' = [cr EXCEPT !.res[i] = "rejected"]
    /\ hist' = [hist EXCEPT !.nfail = @ + 1, !.fails[cr.batch[i].id] = @ + 1]
    /\ UNCHANGED <<isOnline, isSyncing, syncQueue, stored, load, maint, listening, account, optimizer, bulk, breaker, adds, pass, wk, dlq,
                   failedStore, nextId, clock, remoteRows, remoteOps, erp>>

\* The queue after settled.forEach: every fulfilled item is filtered out.
RECURSIVE RemoveFulfilled(_, _, _)
RemoveFulfilled(q, batch, res) ==
    IF batch = <<>> THEN q
    ELSE RemoveFulfilled(IF Head(res) = "fulfilled" THEN RemoveById(q, Head(batch).id) ELSE q,
                         Tail(batch), Tail(res))

Count(res, v) == Cardinality({i \in DOMAIN res : res[i] = v})

\* Promise.allSettled has resolved: the results are counted
CrSettle ==
    /\ cr.pc = "wait"
    /\ \A i \in DOMAIN cr.res : cr.res[i] # "pending"
    /\ syncQueue' = RemoveFulfilled(syncQueue, cr.batch, cr.res)
    /\ cr' = [cr EXCEPT !.pc = "save",
                        !.successful = @ + Count(cr.res, "fulfilled"),
                        !.failed = @ + Count(cr.res, "rejected"),
                        !.batch = <<>>, !.res = <<>>]
    /\ UNCHANGED <<isOnline, isSyncing, stored, load, maint, listening, account, optimizer, bulk, breaker, adds, pass, wk, dlq, failedStore,
                   nextId, clock, remoteRows, remoteOps, hist, erp>>

\* saveSyncQueue of the batch, then the next batch or the return
CrSave ==
    /\ cr.pc = "save"
    /\ SaveSyncQueue(syncQueue)
    /\ IF cr.rest # <<>>
       THEN /\ cr' = NextBatch(cr, cr.rest)
            /\ hist' = [hist EXCEPT !.dispatched = @ \cup IdsOf(cr'.batch)]
       ELSE /\ cr' = IdleCr
            /\ hist' = hist
    /\ UNCHANGED <<isOnline, isSyncing, syncQueue, load, maint, listening, account, optimizer, bulk, breaker, adds, pass, wk, dlq, failedStore,
                   nextId, clock, remoteRows, remoteOps, erp>>

(***************************************************************************)
(* ERPService (erpService.ts): sessions kept under erp_sessions_<user>       *)
(***************************************************************************)
\* getSessionHistory(exerciseId) on the stored sessions: the completed sessions of
\* the exercise
getSessionHistory(sessions, exerciseId) ==
    SelectSeq(sessions, LAMBDA s : s.exerciseId = exerciseId /\ s.completed)

\* startSession(exerciseId, initialAnxiety) up to the result of getSessionHistory:
\* the session is built and the stored sessions are read
ErpStartSession(exerciseId) ==
    /\ erp.start.pc = "idle"
    /\ erp.nextId <= MaxSessions
    /\ erp' = [erp EXCEPT !.nextId = @ + 1,
                          !.start = [pc |-> "write",
                                     session |-> [id |-> erp.nextId, exerciseId |-> exerciseId,
                                                  completed |-> FALSE],
                                     existing |-> getSessionHistory(erp.sessions, exerciseId)]]
    /\ UNCHANGED <<isOnline, isSyncing, syncQueue, stored, load, maint, listening, breaker, account,
                   optimizer, bulk, adds, pass, wk, cr, dlq, failedStore, nextId, clock, remoteRows,
                   remoteOps, hist>>

\* AsyncStorage.setItem(storageKey, [...existingSessions, session]); the session is
\* returned
ErpStartWrite ==
    /\ erp.start.pc = "write"
    /\ erp' = [erp EXCEPT !.sessions = Append(erp.start.existing, erp.start.session),
                          !.started = @ \cup {erp.start.session.id},
                          !.start = IdleErp.start]
    /\ UNCHANGED <<isOnline, isSyncing, syncQueue, stored, load, maint, listening, breaker, account,
                   optimizer, bulk, adds, pass, wk, cr, dlq, failedStore, nextId, clock, remoteRows,
                   remoteOps, hist>>

\* completeSession(sessionId, finalAnxiety) of a session startSession has returned,
\* up to the result of AsyncStorage.getItem
ErpCompleteSession(sessionId) ==
    /\ erp.complete.pc = "idle"
    /\ sessionId \in erp.started
    /\ erp' = [erp EXCEPT !.complete = [pc |-> "write", id |-> sessionId,
                                        sessions |-> erp.sessions]]
    /\ UNCHANGED <<isOnline, isSyncing, syncQueue, stored, load, maint, listening, breaker, account,
                   optimizer, bulk, adds, pass, wk, cr, dlq, failedStore, nextId, clock, remoteRows,
                   remoteOps, hist>>

\* The session is looked up in the sessions read. Found: it is marked completed,
\* the sessions are written back and the session is saved remotely unless the
\* remote store has it or the save fails. Not found: 'Session not found' is thrown.
ErpCompleteWrite(remoteOk) ==
    /\ erp.complete.pc = "write"
    /\ LET sessions == erp.complete.sessions
           sessionIndex == IF \E i \in DOMAIN sessions : sessions[i].id = erp.complete.id
                           THEN CHOOSE i \in DOMAIN sessions :
                                    /\ sessions[i].id = erp.complete.id
                                    /\ \A j \in 1..(i - 1) : sessions[j].id # erp.complete.id
                           ELSE 0
       IN  IF sessionIndex >= 1
           THEN erp' = [erp EXCEPT !.sessions = [sessions EXCEPT ![sessionIndex].completed = TRUE],
                                   !.saved = IF remoteOk THEN @ \cup {erp.complete.id} ELSE @,
                                   !.complete = IdleErp.complete]
           ELSE erp' = [erp EXCEPT !.notFound = @ \cup {erp.complete.id},
                                   !.complete = IdleErp.complete]
    /\ UNCHANGED <<isOnline, isSyncing, syncQueue, stored, load, maint, listening, breaker, account,
                   optimizer, bulk, adds, pass, wk, cr, dlq, failedStore, nextId, clock, remoteRows,
                   remoteOps, hist>>

(***************************************************************************)
(* Queue maintenance and teardown                                           *)
(***************************************************************************)
\* clearSyncQueue up to the await of saveSyncQueue
ClearSyncQueue ==
    /\ ~maint
    /\ syncQueue' = <<>>
    /\ maint' = TRUE
    /\ hist' = [hist EXCEPT !.discarded = @ \cup IdsOf(syncQueue)]
    /\ UNCHANGED <<isOnline, isSyncing, stored, load, listening, account, optimizer, bulk, breaker, adds, pass, wk, cr, dlq,
                   failedStore, nextId, clock, remoteRows, remoteOps, erp>>

\* this.syncQueue.filter(item => item.timestamp > staleThreshold)
KeepFresh(q, staleThreshold) == SelectSeq(q, LAMBDA x : x.timestamp > staleThreshold)

\* cleanupStaleItems(maxAge) when it removes something, up to the await of
\* saveSyncQueue; the clock and maxAge are in the same unit
CleanupStaleItems(maxAge) ==
    /\ ~maint
    /\ LET kept == KeepFresh(syncQueue, clock - maxAge)
       IN  /\ Len(kept) < Len(syncQueue)
           /\ syncQueue' = kept
           /\ hist' = [hist EXCEPT !.discarded = @ \cup (IdsOf(syncQueue) \ IdsOf(kept))]
    /\ maint' = TRUE
    /\ UNCHANGED <<isOnline, isSyncing, stored, load, listening, account, optimizer, bulk, breaker, adds, pass, wk, cr, dlq,
                   failedStore, nextId, clock, remoteRows, remoteOps, erp>>

\* the saveSyncQueue of clearSyncQueue or cleanupStaleItems reaches setItem
MaintSave ==
    /\ maint
    /\ SaveSyncQueue(syncQueue)
    /\ maint' = FALSE
    /\ UNCHANGED <<isOnline, isSyncing, syncQueue, load, listening, account, optimizer, bulk, breaker, adds, pass, wk, cr,
                   dlq, failedStore, nextId, clock, remoteRows, remoteOps, hist, erp>>

\* cleanup(): the listener is removed, isSyncing is reset and the queue is cleared
\* in memory
Cleanup ==
    /\ listening \/ isSyncing \/ syncQueue # <<>>
    /\ listening' = FALSE
    /\ isSyncing' = FALSE
    /\ syncQueue' = <<>>
    /\ hist' = [hist EXCEPT !.discarded = @ \cup IdsOf(syncQueue), !.preserved = <<stored>>]
    /\ UNCHANGED <<isOnline, stored, load, maint, breaker, account, optimizer, bulk, adds, pass, wk, cr, dlq,
                   failedStore,
                   nextId, clock, remoteRows, remoteOps, erp>>

(***************************************************************************)
(* loadSyncQueue, started and not awaited by the constructor                *)
(***************************************************************************)
\* AsyncStorage.getItem(queueKey) reads the persisted queue
LoadRead ==
    /\ load.pc = "read"
    /\ load' = [pc |-> "assign", data |-> stored]
    /\ UNCHANGED <<isOnline, isSyncing, syncQueue, stored, maint, listening, account, optimizer, bulk, breaker, adds, pass,
                   wk, cr, dlq, failedStore, nextId, clock, remoteRows, remoteOps, hist, erp>>

\* if (queueData) this.syncQueue = JSON.parse(queueData)
LoadAssign ==
    /\ load.pc = "assign"
    /\ syncQueue' = IF load.data.has THEN load.data.q ELSE syncQueue
    /\ load' = [pc |-> "done", data |-> [has |-> FALSE, q |-> <<>>]]
    /\ UNCHANGED <<isOnline, isSyncing, stored, maint, listening, account, optimizer, bulk, breaker, adds, pass, wk, cr, dlq,
                   failedStore, nextId, clock, remoteRows, remoteOps, hist, erp>>

(***************************************************************************)
(* The service in use: callers enqueue, connectivity changes, passes run    *)
(***************************************************************************)
\* what the callers of this specification enqueue
MoodCreate == [type |-> "CREATE", entity |-> "mood_entry", hasId |-> TRUE]
CoreKinds == {MoodCreate, [type |-> "DELETE", entity |-> "achievement", hasId |-> TRUE]}

Init == InitLoaded(<<>>, MaxItems)

\* a pass with at most `limit` failing dispatches in the run and the jitter of a
\* backoff drawn from `jitters`
PassStepWith(limit, jitters) ==
    \E p \in PassIds :
        \/ \E w \in Workers :
            \/ WorkerCallOk(p, w)
            \/ WorkerOkTail(p, w)
            \/ WorkerCallFail(p, w, limit, jitters)
            \/ WorkerBackoffEnd(p, w)
        \/ PassSave(p)
        \/ PassFinish(p)

PassStep(limit) == PassStepWith(limit, {0})

\* the circuit breaker failing fast and cooling down
BreakerStep(jitters) ==
    \/ \E p \in PassIds, w \in Workers : WorkerFastFail(p, w, jitters)
    \/ BreakerCoolDown

\* a dispatch that does not return and runs into the call timeout
TimeoutStep(limit, jitters) ==
    \E p \in PassIds, w \in Workers :
        \/ WorkerCallHang(p, w, limit)
        \/ WorkerCallTimeout(p, w, jitters)

\* the hand-over of an item that reached the retry ceiling
DeadLetterStep ==
    \E p \in PassIds, w \in Workers :
        \/ WorkerDlqOk(p, w)
        \/ WorkerDlqThrow(p, w)
        \/ WorkerFallbackWrite(p, w)

CrStep(sizes, limit) ==
    \/ \E b \in sizes : CrStart(b)
    \/ \E b \in sizes : \E i \in 1..b : CrCallOk(i)
    \/ \E b \in sizes : \E i \in 1..b : CrCallFail(i, limit)
    \/ CrSettle
    \/ CrSave

\* The calls of addToSyncQueue are anonymous: a new call takes the first slot that
\* is free.
AddStep(callers, kinds, owners, verdicts, ticks, limit) ==
    \E c \in callers :
        \/ /\ \A d \in callers : d < c => adds[d].pc # "idle"
           /\ AddValidate(c, kinds, owners, verdicts, ticks, limit)
        \/ AddPush(c)
        \/ AddSave(c)
        \/ AddTrigger(c)

Next ==
    \/ AddStep(Callers, CoreKinds, Owners, BOOLEAN, {1}, MaxItems)
    \/ PassStep(MaxFails)
    \/ \E b \in BOOLEAN : NetInfoEvent(b)
    \/ ForceSyncNow

Spec == Init /\ [][Next]_vars

(***************************************************************************)
(* The service started on a persisted queue: both sync entry points, the    *)
(* dead letter hand-over, queue maintenance and teardown                    *)
(***************************************************************************)
\* A queue as loadSyncQueue finds it: items pushed one after the other, some of
\* them one failure short of the retry ceiling.
RECURSIVE LoadedQueues(_, _, _, _)
LoadedQueues(n, kinds, owners, retries) ==
    IF n = 0 THEN {<<>>}
    ELSE {Append(q, Item(n, k.type, k.entity, o, n, r, determinePriority(k.entity), k.hasId)) :
            q \in LoadedQueues(n - 1, kinds, owners, retries),
            k \in kinds, o \in owners, r \in retries}

InitSync ==
    \E n \in 1..MaxLoaded :
        \E q \in LoadedQueues(n, {MoodCreate}, Owners, {0, RetryCeiling - 1}) :
            InitLoaded(q, MaxLoaded)

NextSync ==
    \/ PassStep(MaxFails)
    \/ DeadLetterStep
    \/ CrStep({DefaultBatchSize}, MaxFails)
    \/ \E b \in BOOLEAN : NetInfoEvent(b)
    \/ ForceSyncNow

SpecSync == InitSync /\ [][NextSync]_vars

NextMaint ==
    \/ AddStep(Callers, CoreKinds, Owners, {TRUE}, {1}, MaxLoaded)
    \/ PassStep(MaxFails)
    \/ DeadLetterStep
    \/ ForceSyncNow
    \/ ClearSyncQueue
    \/ \E a \in {0, 1} : CleanupStaleItems(a)
    \/ MaintSave
    \/ Cleanup

SpecMaint == InitSync /\ [][NextMaint]_vars

(***************************************************************************)
(* Concurrent callers of addToSyncQueue while passes run                    *)
(***************************************************************************)
InitEnqueue == InitLoaded(<<>>, MaxEnqueued)

NextEnqueue ==
    \/ AddStep(Callers, {MoodCreate}, Owners, {TRUE}, {1}, MaxEnqueued)
    \/ PassStep(MaxFails)
    \/ ForceSyncNow

SpecEnqueue == InitEnqueue /\ [][NextEnqueue]_vars

(***************************************************************************)
(* Valid and invalid submissions of one owner while passes run              *)
(***************************************************************************)
InitReject == InitLoaded(<<>>, MaxItems)

NextReject ==
    \/ AddStep(Callers, {MoodCreate}, {"u1"}, BOOLEAN, {1}, MaxItems)
    \/ PassStep(MaxFails)
    \/ ForceSyncNow

SpecReject == InitReject /\ [][NextReject]_vars

(***************************************************************************)
(* Startup: the constructor has returned, loadSyncQueue is still running    *)
(***************************************************************************)
InitStartup ==
    \E n \in 1..MaxLoaded :
        \E q \in LoadedQueues(n, {MoodCreate}, Owners, {0}) :
            InitWith(q, MaxEnqueued, FALSE)

NextStartup ==
    \/ LoadRead
    \/ LoadAssign
    \/ AddStep(Callers, {MoodCreate}, Owners, {TRUE}, {1}, MaxEnqueued)
    \/ PassStep(MaxFails)
    \/ ForceSyncNow

SpecStartup == InitStartup /\ [][NextStartup]_vars

(***************************************************************************)
(* One pass over a loaded queue of any priorities and timestamps            *)
(***************************************************************************)
\* entity and priority of a queue item: the priority addToSyncQueue assigns to the
\* entity, or critical, which the type of SyncQueueItem.priority allows
PriorityKinds ==
    {[entity |-> e, priority |-> determinePriority(e)] :
        e \in {"achievement", "voice_checkin", "mood_entry"}}
    \cup {[entity |-> "mood_entry", priority |-> "critical"]}

RECURSIVE QueuesOfLength(_, _, _, _)
QueuesOfLength(n, kinds, owners, stamps) ==
    IF n = 0 THEN {<<>>}
    ELSE {Append(q, Item(n, "CREATE", k.entity, o, ts, 0, k.priority, TRUE)) :
            q \in QueuesOfLength(n - 1, kinds, owners, stamps),
            k \in kinds, o \in owners, ts \in stamps}

\* five items of one owner pushed with priorities low, high, normal, critical, high
ExamplePriorities == <<"low", "high", "normal", "critical", "high">>
ExampleQueue ==
    [i \in DOMAIN ExamplePriorities |->
        Item(i, "CREATE",
             (CHOOSE k \in PriorityKinds : k.priority = ExamplePriorities[i]).entity,
             "u1", i, 0, ExamplePriorities[i], TRUE)]

InitOrder ==
    \E q \in {ExampleQueue} \cup UNION {QueuesOfLength(n, PriorityKinds, Owners, {1, 2}) :
                                          n \in 1..MaxSorted} :
        InitLoaded(q, Len(q))

NextOrder ==
    \/ ForceSyncNow
    \/ PassStep(MaxFails)

SpecOrder == InitOrder /\ [][NextOrder]_vars

(***************************************************************************)
(* One item of any type and entity, dispatched by either sync entry point   *)
(***************************************************************************)
InitAdapters ==
    \E t \in Types, e \in Entities, h \in BOOLEAN :
        InitLoaded(<<Item(1, t, e, "u1", 1, 0, determinePriority(e), h)>>, 1)

NextAdapters ==
    \/ PassStep(MaxFails)
    \/ CrStep({DefaultBatchSize}, MaxFails)
    \/ \E b \in BOOLEAN : NetInfoEvent(b)
    \/ ForceSyncNow

SpecAdapters == InitAdapters /\ [][NextAdapters]_vars

(***************************************************************************)
(* One item failing pass after pass up to the retry ceiling                 *)
(***************************************************************************)
InitBackoff == InitLoaded(<<Item(1, "CREATE", "mood_entry", "u1", 1, 0, "high", TRUE)>>, 1)

NextBackoff ==
    \/ PassStepWith(RetryCeiling, {0, JitterRange - 1})
    \/ BreakerStep({0, JitterRange - 1})
    \/ DeadLetterStep
    \/ ForceSyncNow

SpecBackoff == InitBackoff /\ [][NextBackoff]_vars

(***************************************************************************)
(* Passes in which a dispatch may not return. The event loop runs every      *)
(* continuation that is ready and fires every timer that is due, so the      *)
(* steps of a running pass are taken under weak fairness.                    *)
(***************************************************************************)
NextTimeout ==
    \/ PassStep(MaxFails)
    \/ TimeoutStep(MaxFails, {0})
    \/ DeadLetterStep
    \/ ForceSyncNow

SpecTimeout ==
    /\ InitSync
    /\ [][NextTimeout]_vars
    /\ WF_vars(PassStep(MaxFails) \/ DeadLetterStep)
    /\ WF_vars(\E p \in PassIds, w \in Workers : WorkerCallTimeout(p, w, {0}))

(***************************************************************************)
(* The service left to itself: the device stays online and every dispatch    *)
(* succeeds. What the code has started runs on under weak fairness (the      *)
(* load of the constructor, an addToSyncQueue that was called, a pass that   *)
(* is running); a new addToSyncQueue or forceSyncNow is up to the callers.   *)
(***************************************************************************)
PassOkStep ==
    \E p \in PassIds :
        \/ \E w \in Workers : WorkerCallOk(p, w) \/ WorkerOkTail(p, w)
        \/ PassSave(p)
        \/ PassFinish(p)

NextLive ==
    \/ LoadRead
    \/ LoadAssign
    \/ AddStep(Callers, {MoodCreate}, {"u1"}, {TRUE}, {1}, MaxEnqueued)
    \/ PassOkStep
    \/ ForceSyncNow

SpecLive ==
    /\ InitStartup
    /\ [][NextLive]_vars
    /\ WF_vars(LoadRead \/ LoadAssign)
    /\ WF_vars(\E c \in Callers : AddPush(c) \/ AddSave(c) \/ AddTrigger(c))
    /\ WF_vars(PassOkStep)

(***************************************************************************)
(* Passes over two items whose dispatches keep failing, so that the circuit  *)
(* breaker opens and cools down                                             *)
(***************************************************************************)
InitBreaker ==
    \E q \in LoadedQueues(MaxLoaded, {MoodCreate}, Owners, {0}) : InitLoaded(q, MaxLoaded)

NextBreaker ==
    \/ PassStep(RetryCeiling)
    \/ BreakerStep({0})
    \/ DeadLetterStep
    \/ ForceSyncNow

SpecBreaker == InitBreaker /\ [][NextBreaker]_vars

(***************************************************************************)
(* One UPDATE item whose remote record may have changed, through both sync   *)
(* entry points                                                             *)
(***************************************************************************)
InitConflict ==
    \E e \in Entities, h \in BOOLEAN :
        InitLoaded(<<Item(1, "UPDATE", e, "u1", 1, 0, determinePriority(e), h)>>, 1)

NextConflict ==
    \/ \E id \in 1..MaxItems : RemoteChange(id)
    \/ PassStep(MaxFails)
    \/ CrStep({DefaultBatchSize}, MaxFails)
    \/ ForceSyncNow

SpecConflict == InitConflict /\ [][NextConflict]_vars

(***************************************************************************)
(* A device with several accounts: every caller enqueues for the user who    *)
(* is signed in, and the user changes while the service runs                 *)
(***************************************************************************)
NextUsers ==
    \/ AddStep(Callers, {MoodCreate}, {account.user}, {TRUE}, {1}, MaxItems)
    \/ PassOkStep
    \/ \E b \in BOOLEAN : NetInfoEvent(b)
    \/ \E u \in Owners : ChangeUser(u)

SpecUsers == Init /\ [][NextUsers]_vars

(***************************************************************************)
(* One bulk submission of mood entries, online or offline, with dispatches   *)
(* that may fail                                                            *)
(***************************************************************************)
BulkStep(sizes, users, verdicts, limit) ==
    \/ \E n \in sizes, u \in users, isUUID \in BOOLEAN : BulkStart(n, u, isUUID)
    \/ \E c \in Callers : BulkValidate(c, verdicts, {1}, limit)
    \/ \E c \in Callers : AddPush(c) \/ AddSave(c) \/ AddTrigger(c)
    \/ BulkSettled
    \/ BulkProcess
    \/ BulkReturn

NextBulk ==
    \/ BulkStep(0..MaxCallers, {"u1"}, BOOLEAN, MaxItems)
    \/ PassStep(MaxFails)
    \/ \E b \in BOOLEAN : NetInfoEvent(b)

SpecBulk == Init /\ [][NextBulk]_vars

(***************************************************************************)
(* Teardown: cleanup() is called while passes run, and what is running       *)
(* runs to its end                                                          *)
(***************************************************************************)
NextTeardown ==
    \/ PassStep(MaxFails)
    \/ DeadLetterStep
    \/ ForceSyncNow
    \/ Cleanup

SpecTeardown == InitSync /\ [][NextTeardown]_vars

(***************************************************************************)
(* Passes whose dispatches all return, with success or failure. The event    *)
(* loop runs every continuation that is ready, so the steps of a running     *)
(* pass are taken under weak fairness.                                       *)
(***************************************************************************)
NextPass ==
    \/ PassStep(MaxFails)
    \/ DeadLetterStep
    \/ ForceSyncNow

SpecPass ==
    /\ InitSync
    /\ [][NextPass]_vars
    /\ WF_vars(PassStep(MaxFails) \/ DeadLetterStep)

(***************************************************************************)
(* An item that keeps failing until the breaker opens, and an item enqueued  *)
(* behind it                                                                *)
(***************************************************************************)
InitFastFail ==
    InitLoaded(<<Item(1, "CREATE", "mood_entry", "u1", 1, 0, "high", TRUE)>>, MaxItems)

NextFastFail ==
    \/ AddStep({1}, {MoodCreate}, {"u1"}, {TRUE}, {1}, MaxItems)
    \/ PassStep(RetryCeiling)
    \/ BreakerStep({0})
    \/ DeadLetterStep
    \/ ForceSyncNow

SpecFastFail == InitFastFail /\ [][NextFastFail]_vars

(***************************************************************************)
(* ERP sessions of one user: sessions are started and completed             *)
(***************************************************************************)
NextErp ==
    \/ \E e \in Exercises : ErpStartSession(e)
    \/ ErpStartWrite
    \/ \E id \in 1..MaxSessions : ErpCompleteSession(id)
    \/ \E ok \in BOOLEAN : ErpCompleteWrite(ok)

SpecErp == Init /\ [][NextErp]_vars

(***************************************************************************)
(* What the claims speak of                                                 *)
(***************************************************************************)
Live == IdsOf(syncQueue)
Admitted == IdsOf(hist.enq)
DeadLettered == {r.id : r \in dlq}
Fallback == IdsOf(failedStore)

\* the syncItem calls in flight for an owner: handed to the adapter, not returned
WorkerCalls(u) ==
    {pw \in PassIds \X Workers :
        /\ wk[pw[1]][pw[2]].pc = "call"
        /\ deriveUserId(CurItem(pw[1], pw[2])) = u}
CrCalls(u) ==
    {i \in DOMAIN cr.res : cr.res[i] = "pending" /\ deriveUserId(cr.batch[i]) = u}

\* some operation of the service is still working on the item
Handled(id) ==
    \/ \E p \in PassIds, w \in Workers : wk[p][w].pc # "done" /\ wk[p][w].cur = id
    \/ id \in IdsOf(cr.batch)

\* handleFailedSync is running for the item: it has left the queue and is on its
\* way to the dead letter queue
InHandOver(id) ==
    \E p \in PassIds, w \in Workers : wk[p][w].pc \in {"dlq", "fallback"} /\ wk[p][w].cur = id

\* C1: at most one queue item per owner is in flight, whatever entry point
\* dispatched it.
C1_OneInFlightPerOwner ==
    \A u \in Owners : Cardinality(WorkerCalls(u)) + Cardinality(CrCalls(u)) <= 1

\* C2: for a fixed owner, an item enqueued before another one is dispatched before
\* it and applied before it.
C2_EnqueueOrderKept ==
    \A i, j \in DOMAIN hist.enq :
        (i < j /\ hist.enq[i].owner = hist.enq[j].owner) =>
            /\ hist.enq[j].id \in hist.dispatched => hist.enq[i].id \in hist.dispatched
            /\ hist.enq[j].id \in hist.applied => hist.enq[i].id \in hist.applied

\* C3: once an item has failed 8 times and nothing is working on it any more it is
\* in the dead letter queue with retryCount 8 and not in the live queue; an item
\* that failed 7 times and was then applied is in neither.
C3_TerminalHandling ==
    \A id \in Admitted :
        ~Handled(id) =>
            /\ hist.fails[id] >= RetryCeiling =>
                /\ id \notin Live
                /\ \E r \in dlq : /\ r.id = id
                                  /\ "retryCount" \in DOMAIN r
                                  /\ r["retryCount"] = RetryCeiling
            /\ (hist.fails[id] = RetryCeiling - 1 /\ id \in hist.applied) =>
                (id \notin Live /\ id \notin DeadLettered)

C6_DurableAcrossRestart ==
    (load.pc = "done" /\ \A c \in Callers : adds[c].pc = "idle") =>
        \A id \in hist.persisted :
            (id \notin hist.dispatched) => (id \in Live /\ id \in IdsOf(stored.q))

\* C7: within a pass, of two items of one owner the one dispatched first has the
\* greater priority weight (critical > high > normal > low) or the same weight and
\* a timestamp that is not later; the five items pushed as low, high, normal,
\* critical, high are dispatched as critical, high, high, normal, low.
C7_PriorityThenTimestamp ==
    LET Weight(pr) == CASE pr = "critical" -> 4 [] pr = "high" -> 3
                        [] pr = "normal" -> 2 [] pr = "low" -> 1
    IN  \A p \in PassIds :
            LET order == pass[p].order
                it(k) == ItemById(pass[p].items, order[k])
            IN  /\ \A i, j \in DOMAIN order :
                       (i < j /\ it(i).owner = it(j).owner) =>
                           \/ Weight(it(i).priority) > Weight(it(j).priority)
                           \/ /\ Weight(it(i).priority) = Weight(it(j).priority)
                              /\ it(i).timestamp <= it(j).timestamp
                /\ ([k \in DOMAIN hist.enq |-> hist.enq[k].priority] = ExamplePriorities
                    /\ Len(order) = Len(ExamplePriorities)) =>
                       [k \in DOMAIN order |-> it(k).priority]
                           = <<"critical", "high", "high", "normal", "low">>

\* a pass has dispatched all five items of the example
C7_Witness ==
    \E p \in PassIds :
           /\ [k \in DOMAIN hist.enq |-> hist.enq[k].priority] = ExamplePriorities
           /\ Len(pass[p].order) = Len(ExamplePriorities)
           /\ \A w \in Workers : wk[p][w].pc = "done"

\* C8: a submission the validator finds invalid changes neither the queue nor its
\* persisted copy, creates no queue item and starts no pass.
C8_InvalidItemRejected ==
    [][hist'.invalid > hist.invalid =>
         /\ UNCHANGED <<syncQueue, stored, isSyncing, pass, wk, adds, nextId, erp>>
         /\ hist'.enq = hist.enq
         /\ hist'.dispatched = hist.dispatched]_vars

\* an invalid submission was made while the service was online with a pending
\* item and no pass running: a valid one would have been stored and started a pass
C8_Witness ==
    /\ hist.invalid > 0
    /\ isOnline /\ ~isSyncing /\ syncQueue # <<>>
    /\ Len(hist.enq) = nextId

\* C9 as stated: however often the calls of an item were applied, the remote store
\* holds for it what a single application leaves.
C9_ReplayIdempotent ==
    \A id \in hist.applied :
        LET it == ItemById(hist.enq, id)
        IN  remoteRows[id] = RemoteApply(0, syncItem(it), it)

\* C10 as stated: a DELETE item that was removed from the queue as succeeded was
\* dispatched as a remote delete call and as nothing else.
C10_DeleteDispatchedAsDelete ==
    \A id \in hist.applied \ Live :
        ItemById(hist.enq, id).type = "DELETE" =>
            (remoteOps[id] # {} /\ remoteOps[id] \subseteq DeleteCalls)

\* C11 as stated: the delays computed for the consecutive failures of an item are
\* non-decreasing and none exceeds the cap of 60000 ms.
C11_DelayMonotoneAndCapped ==
    \A id \in DOMAIN hist.delays :
        \A k \in DOMAIN hist.delays[id] :
            /\ hist.delays[id][k].delay <= DelayCap
            /\ k > 1 => hist.delays[id][k].delay >= hist.delays[id][k - 1].delay

\* C11, amended: no delay exceeds the cap by more than the largest jitter (60499
\* ms); a delay below the cap is followed by a greater one; and a delay is never
\* smaller than the one before it by as much as the jitter range.
C11_DelayBoundedByCapPlusJitter ==
    \A id \in DOMAIN hist.delays :
        \A k \in DOMAIN hist.delays[id] :
            /\ hist.delays[id][k].delay <= DelayCap + JitterRange - 1
            /\ k > 1 =>
                /\ hist.delays[id][k - 1].delay < DelayCap =>
                       hist.delays[id][k].delay > hist.delays[id][k - 1].delay
                /\ hist.delays[id][k].delay > hist.delays[id][k - 1].delay - JitterRange

\* an item has failed at retryCount 1, 2, ..., 8, and one of its delays was smaller
\* than the one before it
C11_Witness ==
    \E id \in DOMAIN hist.delays :
        /\ [k \in DOMAIN hist.delays[id] |-> hist.delays[id][k].attempt]
              = [k \in 1..RetryCeiling |-> k]
        /\ \E k \in 2..RetryCeiling :
              hist.delays[id][k].delay < hist.delays[id][k - 1].delay

\* C12: while a worker waits for the backoff delay of a failed item, the owner of
\* that item is not kept in the in-flight set of the pass, so that other items of
\* the owner can be dispatched in the meantime.
C12_BackoffReleasesOwner ==
    \A p \in PassIds : \A w \in Workers :
        wk[p][w].pc = "backoff" =>
            deriveUserId(CurItem(p, w)) \notin pass[p].inflightUsers

C14_AtMostTwoInFlight ==
    Cardinality({pw \in PassIds \X Workers : wk[pw[1]][pw[2]].pc = "call"})
        + Cardinality({i \in DOMAIN cr.res : cr.res[i] = "pending"}) <= Concurrency

C16_OfflineItemSyncedOnceOnReconnect ==
    [][/\ hist'.held \cap hist'.dispatched = {}
       /\ (~isOnline /\ isOnline' /\ syncQueue # <<>> /\ ~isSyncing) =>
              \E p \in PassIds :
                  /\ pass'[p].phase = "workers"
                  /\ IdsOf(pass'[p].items) = IdsOf(syncQueue)
       /\ \A p \in PassIds :
              (/\ pass[p].phase = "summary" /\ pass'[p].phase = "idle"
               /\ Len(pass[p].successful) = Len(pass[p].items)) =>
                  \A id \in IdsOf(pass[p].items) \cap hist.offline :
                      /\ id \notin IdsOf(syncQueue')
                      /\ hist.calls[id] = 1]_vars

\* C17: while the device stays online and every dispatch succeeds, every item in
\* the queue, whether loaded at startup or pushed while a pass was running, is
\* eventually applied and removed, with no further enqueue, connectivity event or
\* on-demand sync needed.
C17_EveryQueuedItemEventuallySynced ==
    \A id \in 1..MaxEnqueued :
        (id \in Live) ~> (id \in hist.applied /\ id \notin Live)

\* the workers that are handed to the adapter by this step
NewAdapterCalls ==
    {pw \in PassIds \X Workers :
        /\ wk'[pw[1]][pw[2]].pc = "call"
        /\ \/ wk[pw[1]][pw[2]].pc # "call"
           \/ wk[pw[1]][pw[2]].cur # wk'[pw[1]][pw[2]].cur}

\* C18: once five consecutive failures have opened the circuit breaker, and until
\* its cool-down has elapsed, no dispatch of a worker invokes the adapter: every
\* item a worker picks fails at once.
C18_OpenBreakerFailsFast ==
    [][breaker'.state = "OPEN" =>
          /\ NewAdapterCalls = {}
          /\ \A p \in PassIds : \A w \in Workers :
                (wk'[p][w].cur # 0 /\ wk'[p][w] # wk[p][w] /\ wk[p][w].cur # wk'[p][w].cur)
                    => wk'[p][w].pc = "fastfail"]_vars

\* the breaker has opened after five consecutive failures and a worker has picked
\* an item whose dispatch fails at once
C18_Witness ==
    /\ breaker.state = "OPEN"
    /\ hist.nfail >= BreakerThreshold
    /\ \E p \in PassIds, w \in Workers : wk[p][w].pc = "fastfail"

\* C19: an UPDATE item whose remote record changed since the item was derived is
\* not applied as a plain success: when the pass or the syncWithConflictResolution
\* call that dispatched it has counted its results, the item is counted as a
\* conflict.
C19_RemoteChangeCountedAsConflict ==
    /\ \A p \in PassIds :
          pass[p].phase = "summary" =>
              \A id \in Range(pass[p].successful) \cap hist.changed : pass[p].conflicts > 0
    /\ cr.pc = "save" =>
          \A id \in (hist.applied \cap hist.changed) \ IdsOf(syncQueue) : cr.conflicts > 0

\* C20: the counts a pass reports add up: in the last_sync_summary of
\* processSyncQueue and in the result of syncWithConflictResolution the number of
\* items attempted equals succeeded + failed + conflicts, also when the queue was
\* modified while the pass ran.
C20_CountsAddUp ==
    /\ \A p \in PassIds :
          pass[p].phase = "summary" =>
              Len(pass[p].items) =
                  Len(pass[p].successful) + Len(pass[p].failed) + pass[p].conflicts
    /\ (cr.pc = "save" /\ cr.rest = <<>>) =>
          cr.attempted = cr.successful + cr.failed + cr.conflicts

\* C21: the queue persisted under the key syncQueue_<U> holds only items whose
\* owner is U.
C21_StoredQueueOwnedByKey ==
    \A u \in Owners :
        \A i \in DOMAIN StoreOf(u).q : deriveUserId(StoreOf(u).q[i]) = u

\* the items that succeeded in pass p
SucceededItems(p) == {ItemById(pass[p].items, id) : id \in Range(pass[p].successful)}

\* C22: when a pass ends, a sync-completed signal is emitted if and only if an item
\* succeeded; every signal carries exactly the entity kinds of the succeeded items,
\* and every owner of a succeeded item is named by a signal.
C22_SignalForEveryOwnerSynced ==
    [][\A p \in PassIds :
          (pass[p].phase = "summary" /\ pass'[p].phase = "idle") =>
              /\ (hist'.signals # <<>>) <=> (SucceededItems(p) # {})
              /\ \A i \in DOMAIN hist'.signals :
                    hist'.signals[i].entities = {it.entity : it \in SucceededItems(p)}
              /\ \A it \in SucceededItems(p) :
                    \E i \in DOMAIN hist'.signals :
                        hist'.signals[i].userId = deriveUserId(it)]_vars

\* C23: a pass never dispatches more items than the batch size
\* batchOptimizer.calculate returned for it.
C23_DispatchedWithinBatchSize ==
    \A p \in PassIds :
        pass[p].phase # "idle" => Cardinality(pass[p].consumed) <= pass[p].batchSize

\* the ids of the items of the batch of a bulk call
BatchIds(b, h) == {it.id : it \in {x \in Range(h.enq) : HasBatchId(x, b.batchId)}}

\* C24: the result bulkSyncMoodEntries returns adds up to the number of entries,
\* synced is the number of entries applied remotely and failed the number of the
\* others.
C24_BulkResultCountsApplied ==
    [][(bulk.pc # "done" /\ bulk'.pc = "done") =>
          LET applied == Cardinality(BatchIds(bulk', hist') \cap hist'.applied)
          IN  /\ bulk'.result.synced + bulk'.result.failed = bulk'.entries
              /\ bulk'.result.synced = applied
              /\ bulk'.result.failed = bulk'.entries - applied]_vars

\* the passes of processSyncQueue that have started and not returned
ActivePasses == {p \in PassIds : pass[p].phase # "idle"}

\* C25: at most one pass of processSyncQueue is active at any time.
C25_AtMostOneActivePass == Cardinality(ActivePasses) <= 1

\* C26: once cleanup() has been called and every pass it left running has ended,
\* the persisted queue is the one cleanup() found.
C26_CleanupKeepsPersistedQueue ==
    (hist.preserved # <<>> /\ ActivePasses = {}) => stored = hist.preserved[1]

\* every live item that no operation is working on has been counted once per
\* failed dispatch
RetryCountsFailures ==
    \A i \in DOMAIN syncQueue :
        ~Handled(syncQueue[i].id) => syncQueue[i].retryCount = hist.fails[syncQueue[i].id]

\* C27: the retryCount of a live item is the number of its failed dispatches,
\* whatever entry point dispatched it, and it never decreases.
C27_RetryCountCountsEveryFailure ==
    [][/\ RetryCountsFailures'
       /\ \A i \in DOMAIN syncQueue, j \in DOMAIN syncQueue' :
              syncQueue[i].id = syncQueue'[j].id =>
                  syncQueue'[j].retryCount >= syncQueue[i].retryCount]_vars

ExecuteRejected(p, w) ==
    \/ wk[p][w].pc = "fastfail" /\ wk'[p][w] # wk[p][w]
    \/ wk[p][w].pc = "call" /\ wk'[p][w] # wk[p][w] /\ hist'.nfail = hist.nfail + 1

\* C29: every rejection of syncCircuitBreaker.execute is counted as one failed
\* attempt of the live item, with a backoff, whether or not the adapter was invoked;
\* an item whose attempts reach the retry ceiling is handed to the dead letter queue
\* however few of them invoked the adapter.
C29_FastFailCountsAsAttempt ==
    [][\A p \in PassIds, w \in Workers :
          LET id == wk[p][w].cur
              i == FindIndex(syncQueue, id)
          IN  /\ (ExecuteRejected(p, w) /\ i # 0) =>
                    /\ FindIndex(syncQueue', id) = i
                    /\ syncQueue'[i].retryCount = syncQueue[i].retryCount + 1
                    /\ wk'[p][w] = [pc |-> "backoff", cur |-> id,
                                    attempt |-> syncQueue[i].retryCount + 1]
              /\ (wk[p][w].pc = "backoff" /\ wk[p][w].attempt >= RetryCeiling
                    /\ wk'[p][w] # wk[p][w]) =>
                    /\ wk'[p][w].pc = "dlq"
                    /\ id \notin IdsOf(syncQueue')]_vars

\* an item is in the dead letter queue after eight rejections none of which
\* invoked the adapter
C29_Witness ==
    \E r \in dlq :
        /\ hist.fails[r.id] = RetryCeiling
        /\ hist.fastFails[r.id] = RetryCeiling

\* C30: startSession only appends to the stored sessions, so that every session
\* stored before its write is stored after it, and completeSession finds every
\* session startSession has returned.
C30_StartSessionOnlyAppends ==
    [][/\ (erp.start.pc = "write" /\ erp'.start.pc = "idle") =>
              IdsOf(erp.sessions) \subseteq IdsOf(erp'.sessions)
       /\ erp'.notFound = {}]_vars

====
